---- MODULE Spec2Model ----
(***************************************************************************)
(* Model of custom_components/powercalc/common.py:                         *)
(*   get_merged_sensor_configuration  (ConfigMerger)                       *)
(*   create_source_entity             (EntityResolver)                     *)
(*                                                                         *)
(* Python values are modelled as follows.  A str is the sequence of its    *)
(* characters, None is the one-element sequence <<"None">> (no str of the  *)
(* model has that shape), a dict is a function whose DOMAIN is its key     *)
(* set, a list is a sequence.  Mutable dicts live in a heap (a function    *)
(* from references to dicts) so that aliasing between an input layer and   *)
(* the copy the merge works on can be expressed.                           *)
(***************************************************************************)
EXTENDS Naturals, Sequences, FiniteSets, TLC

None == <<"None">>

EmptyDict == [k \in {} |-> None]

\* ---------------------------------------------------------------- constants
CONF_NAME == "name"
CONF_ENTITY_ID == "entity_id"
CONF_UNIQUE_ID == "unique_id"
CONF_POWER_SENSOR_ID == "power_sensor_id"
CONF_CREATE_ENERGY_SENSOR == "create_energy_sensor"
CONF_CREATE_ENERGY_SENSORS == "create_energy_sensors"
CONF_CREATE_GROUP == "create_group"
CONF_DAILY_FIXED_ENERGY == "daily_fixed_energy"
\* a configuration option the merge gives no special treatment
CONF_POWER == "power"

DUMMY_ENTITY_ID == <<"s", ".", "d">>

exclude_from_merging ==
    <<CONF_NAME, CONF_ENTITY_ID, CONF_UNIQUE_ID, CONF_POWER_SENSOR_ID>>

\* ------------------------------------------------------------------- bounds
\* longest sequence of layers passed to one merge
MaxConfigs == 3

IdentityKeys == {exclude_from_merging[j] : j \in 1..Len(exclude_from_merging)}

OptionKeys ==
    {CONF_CREATE_ENERGY_SENSOR, CONF_CREATE_ENERGY_SENSORS, CONF_CREATE_GROUP,
     CONF_DAILY_FIXED_ENERGY, CONF_POWER}

Keys == IdentityKeys \cup OptionKeys

\* the layer objects the caller holds
LayerRefs == {"l1", "l2"}

\* every value of a stored layer is the layer's own, so that a merged value
\* shows which layer it came from
ValueOf(ref) == IF ref = "l1" THEN <<"a">> ELSE <<"b">>

Values == {ValueOf(r) : r \in LayerRefs}

\* references of the objects a merge call allocates
COPY == "config_copy"
MERGED == "merged_config"
\* reference under which the caller holds the mapping the last merge returned
RESULT == "result"

\* a stored layer defines at most one identity key and at most one other key
KeySets ==
    {ik \cup ok : ik \in {{}} \cup {{k} : k \in IdentityKeys},
                  ok \in {{}} \cup {{k} : k \in OptionKeys}}

Layers(ref) == {[k \in ks |-> ValueOf(ref)] : ks \in KeySets}

Stores == {s \in [LayerRefs -> UNION {Layers(r) : r \in LayerRefs}] :
              \A r \in LayerRefs : s[r] \in Layers(r)}

\* --------------------------------------------------------------- dict methods
\* update() that keeps the value already present
dict_update_keep(d, e) ==
    [k \in DOMAIN d \cup DOMAIN e |-> IF k \in DOMAIN d THEN d[k] ELSE e[k]]

\* d.update(e): e's values win
dict_update(d, e) ==
    [k \in DOMAIN d \cup DOMAIN e |-> IF k \in DOMAIN e THEN e[k] ELSE d[k]]

dict_pop(d, key) == [k \in DOMAIN d \ {key} |-> d[k]]

dict_get(d, key) == IF key \in DOMAIN d THEN d[key] ELSE None

dict_set(d, key, value) ==
    [k \in DOMAIN d \cup {key} |-> IF k = key THEN value ELSE d[k]]

\* config.copy() with the alias bug: the "copy" is the layer itself
dict_copy_alias(heap, ref) == [heap |-> heap, ref |-> ref]

\* config.copy(): a new dict object holding the same key/value pairs
dict_copy(heap, ref) ==
    [heap |-> [heap EXCEPT ![COPY] = heap[ref]], ref |-> COPY]

\* ------------------------------------------------- get_merged_sensor_configuration
\* the guard of the identity-key filter, never taken
NotDeepestNever(i, num_configs) == FALSE

\* line 100: the layer at position i is not the deepest one
NotDeepest(i, num_configs) == i < num_configs

\* lines 101-103: the membership test reads config, the pop writes config_copy
RECURSIVE PopExcluded(_, _, _, _)
PopExcluded(heap, config, config_copy, j) ==
    IF j > Len(exclude_from_merging) THEN heap
    ELSE LET key == exclude_from_merging[j]
             h == IF key \in DOMAIN heap[config]
                  THEN [heap EXCEPT ![config_copy] = dict_pop(heap[config_copy], key)]
                  ELSE heap
         IN  PopExcluded(h, config, config_copy, j + 1)

\* lines 97-105, from position i on
RECURSIVE MergeLoop(_, _, _)
MergeLoop(heap, configs, i) ==
    IF i > Len(configs) THEN heap
    ELSE LET c == dict_copy(heap, configs[i])
             h1 == IF NotDeepest(i, Len(configs))
                   THEN PopExcluded(c.heap, configs[i], c.ref, 1)
                   ELSE c.heap
             h2 == [h1 EXCEPT ![MERGED] = dict_update(h1[MERGED], h1[c.ref])]
         IN  MergeLoop(h2, configs, i + 1)

\* rule A that adds the primary key only when the legacy key is there
DefaultCreateEnergySensorIfLegacy(m) ==
    IF CONF_CREATE_ENERGY_SENSOR \notin DOMAIN m /\ CONF_CREATE_ENERGY_SENSORS \in DOMAIN m
    THEN dict_set(m, CONF_CREATE_ENERGY_SENSOR, m[CONF_CREATE_ENERGY_SENSORS])
    ELSE m

\* rule A in which the legacy key wins over the primary one
DefaultCreateEnergySensorLegacyWins(m) ==
    IF CONF_CREATE_ENERGY_SENSOR \notin DOMAIN m \/ CONF_CREATE_ENERGY_SENSORS \in DOMAIN m
    THEN dict_set(m, CONF_CREATE_ENERGY_SENSOR, dict_get(m, CONF_CREATE_ENERGY_SENSORS))
    ELSE m

\* lines 107-110 (defaulting rule A)
DefaultCreateEnergySensor(m) ==
    IF CONF_CREATE_ENERGY_SENSOR \notin DOMAIN m
    THEN dict_set(m, CONF_CREATE_ENERGY_SENSOR, dict_get(m, CONF_CREATE_ENERGY_SENSORS))
    ELSE m

\* rule B left out
DefaultEntityIdMissing(m) == m

\* lines 112-113 (defaulting rule B)
DefaultEntityId(m) ==
    IF CONF_DAILY_FIXED_ENERGY \in DOMAIN m /\ CONF_ENTITY_ID \notin DOMAIN m
    THEN dict_set(m, CONF_ENTITY_ID, DUMMY_ENTITY_ID)
    ELSE m

\* the validation with the validate flag ignored
MustRaiseAlways(validate, m) ==
    /\ CONF_CREATE_GROUP \notin DOMAIN m
    /\ CONF_ENTITY_ID \notin DOMAIN m

\* the validation left out
MustRaiseNever(validate, m) == FALSE

\* lines 115-119: the condition under which SensorConfigurationError is raised
MustRaise(validate, m) ==
    /\ validate
    /\ CONF_CREATE_GROUP \notin DOMAIN m
    /\ CONF_ENTITY_ID \notin DOMAIN m

\* The call up to the validation (lines 94-113).  objects are the caller's
\* dicts; the call allocates merged_config and config_copy.  The outcome names
\* the heap the call leaves and the defaulted mapping.
CallHeap(objects) ==
    [r \in DOMAIN objects \cup {COPY, MERGED} |->
        IF r \in DOMAIN objects THEN objects[r] ELSE EmptyDict]

MergeAndDefault(objects, configs) ==
    LET heap1 == MergeLoop(CallHeap(objects), configs, 1)
    IN  [heap |-> heap1,
         merged_config |-> DefaultEntityId(DefaultCreateEnergySensor(heap1[MERGED]))]

\* lines 115-124: raise SensorConfigurationError, or return merged_config
ValidateAndReturn(body, validate) ==
    [heap |-> body.heap,
     raised |-> MustRaise(validate, body.merged_config),
     merged_config |-> body.merged_config]

\* the whole call
get_merged_sensor_configuration(objects, configs, validate) ==
    ValidateAndReturn(MergeAndDefault(objects, configs), validate)

\* ------------------------------------------------------------ str methods
\* position of the first separator of a well-formed entity id
FirstDot(s) ==
    CHOOSE i \in 1..Len(s) : s[i] = "." /\ \A j \in 1..(i - 1) : s[j] # "."

\* homeassistant.core.split_entity_id: <<domain, object_id>>
split_entity_id(entity_id) ==
    <<SubSeq(entity_id, 1, FirstDot(entity_id) - 1),
      SubSeq(entity_id, FirstDot(entity_id) + 1, Len(entity_id))>>

\* str.replace for one-character old and new
str_replace(s, old, new) ==
    [i \in 1..Len(s) |-> IF s[i] = old THEN new ELSE s[i]]

\* ------------------------------------------------------- create_source_entity
\* None where the slot otherwise holds a record or a dict (TLC compares
\* values of one kind only, so these slots cannot hold the sequence None)
NoneObject == [none |-> TRUE]

ATTR_SUPPORTED_COLOR_MODES == "supported_color_modes"

\* truth value of a str, a list or None
Truthy(x) == x # None /\ x # <<>>

\* truth value of a dict or None
TruthyDict(d) == d # NoneObject /\ DOMAIN d # {}

\* registry.async_get(key), hass.states.get(key): the entry, or None
Lookup(table, key) == IF key \in DOMAIN table THEN table[key] ELSE NoneObject

SourceEntity(object_id, entity_id, domain, unique_id, name, modes, entry, device) ==
    [object_id |-> object_id, entity_id |-> entity_id, domain |-> domain,
     unique_id |-> unique_id, name |-> name,
     supported_color_modes |-> modes,
     entity_entry |-> entry, device_entry |-> device]

\* lines 39-42: the fields not passed keep the NamedTuple's defaults (None)
DummySourceEntity ==
    SourceEntity(DUMMY_ENTITY_ID, DUMMY_ENTITY_ID, DUMMY_ENTITY_ID,
                 None, None, None, NoneObject, NoneObject)

\* lines 57-66: <<source_entity_name, supported_color_modes>> from the registry
RegistryNameAndModes(entity_entry, source_object_id) ==
    IF entity_entry # NoneObject
    THEN <<IF Truthy(entity_entry.name) THEN entity_entry.name
                                        ELSE entity_entry.original_name,
           IF TruthyDict(entity_entry.capabilities)
           THEN dict_get(entity_entry.capabilities, ATTR_SUPPORTED_COLOR_MODES)
           ELSE <<>> >>
    ELSE <<str_replace(source_object_id, "_", " "), <<>> >>

\* lines 68-71 with the override dropped: the registry's values are kept
StateOverrideIgnored(entity_state, from_registry) == from_registry

\* lines 68-71: a live state overrides name and supported_color_modes
StateOverride(entity_state, from_registry) ==
    IF entity_state # NoneObject
    THEN <<entity_state.name,
           dict_get(entity_state.attributes, ATTR_SUPPORTED_COLOR_MODES)>>
    ELSE from_registry

\* supported_color_modes or []
OrEmptyList(x) == IF Truthy(x) THEN x ELSE <<>>

create_source_entity(entity_id, h) ==
    IF entity_id = DUMMY_ENTITY_ID THEN DummySourceEntity
    ELSE
    LET source_object_id == split_entity_id(entity_id)[2]
        entity_entry == Lookup(h.entity_registry, entity_id)
        device_entry ==
            IF entity_entry # NoneObject /\ Truthy(entity_entry.device_id)
            THEN Lookup(h.device_registry, entity_entry.device_id)
            ELSE NoneObject
        source_entity_domain ==
            IF entity_entry # NoneObject THEN entity_entry.domain
            ELSE split_entity_id(entity_id)[1]
        unique_id ==
            IF entity_entry # NoneObject THEN entity_entry.unique_id ELSE None
        resolved == StateOverride(Lookup(h.states, entity_id),
                                  RegistryNameAndModes(entity_entry, source_object_id))
    IN  SourceEntity(source_object_id, entity_id, source_entity_domain, unique_id,
                     resolved[1], OrEmptyList(resolved[2]), entity_entry, device_entry)

\* ---- the host's registries and state machine (read-only to this module)
EntityIds == {DUMMY_ENTITY_ID, <<"l", ".", "a", "_", "b">>, <<"s", ".", "c">>}

ColorModeLists == {None, <<>>, <<"hs">>, <<"ct", "xy">>}

Capabilities ==
    {NoneObject, EmptyDict} \cup
    {[k \in {ATTR_SUPPORTED_COLOR_MODES} |-> m] : m \in ColorModeLists}

RegistryEntries ==
    [name : {None, <<>>, <<"N">>},
     original_name : {None, <<"O">>},
     domain : {<<"l">>, <<"s">>},
     unique_id : {<<"u">>},
     capabilities : Capabilities,
     device_id : {None, <<"d">>}]

DeviceEntries == {[id |-> <<"d">>]}

States ==
    [name : {<<"S">>},
     attributes : {EmptyDict} \cup
         {[k \in {ATTR_SUPPORTED_COLOR_MODES} |-> m] : m \in ColorModeLists}]

\* tables holding at most one record
Tables(keys, records) ==
    {EmptyDict} \cup UNION {[{k} -> records] : k \in keys}

Hasses ==
    [entity_registry : Tables(EntityIds, RegistryEntries),
     device_registry : Tables({<<"d">>}, DeviceEntries),
     states : Tables(EntityIds, States)]

EmptyHass ==
    [entity_registry |-> EmptyDict, device_registry |-> EmptyDict,
     states |-> EmptyDict]

\* -------------------------------------------------------------------- state
VARIABLES
    store,      \* the caller's layer objects: LayerRefs -> dict
    configs,    \* the layer references of the last merge call
    args,       \* the contents of those layers when the call was made
    validate,   \* the validate flag of the last merge call
    called,     \* "none" | "merge" | "remerge": the kind of the last call
    raised,     \* the last call raised SensorConfigurationError
    result,     \* the mapping the last call returned (EmptyDict if none)
    hass,       \* the host: entity registry, device registry, states
    source_entity   \* the descriptor create_source_entity returned last

mergeVars == <<store, configs, args, validate, called, raised, result>>
entityVars == <<hass, source_entity>>
vars == <<store, configs, args, validate, called, raised, result, hass, source_entity>>

ConfigSeqs == UNION {[1..n -> LayerRefs] : n \in 0..MaxConfigs}

NoCallYet ==
    /\ configs = <<>>
    /\ args = <<>>
    /\ validate = TRUE
    /\ called = "none"
    /\ raised = FALSE
    /\ result = EmptyDict

Init ==
    /\ store \in Stores
    /\ NoCallYet
    /\ hass = EmptyHass
    /\ source_entity = NoneObject

\* get_merged_sensor_configuration(store, cs, v), written so that the lines
\* the two values of validate share are evaluated once
Merge ==
    /\ \E cs \in ConfigSeqs :
        \E body \in {MergeAndDefault(store, cs)} :
            \E v \in BOOLEAN :
                LET out == ValidateAndReturn(body, v)
                IN  /\ store' = [r \in LayerRefs |-> out.heap[r]]
                    /\ configs' = cs
                    /\ args' = [i \in 1..Len(cs) |-> store[cs[i]]]
                    /\ validate' = v
                    /\ called' = "merge"
                    /\ raised' = out.raised
                    /\ result' = IF out.raised THEN EmptyDict ELSE out.merged_config
    /\ UNCHANGED entityVars

\* get_merged_sensor_configuration(result, v): a call whose only layer is the
\* mapping the last call returned
Remerge ==
    /\ called # "none"
    /\ ~raised
    /\ \E v \in BOOLEAN :
        LET objects == [r \in LayerRefs \cup {RESULT} |->
                           IF r = RESULT THEN result ELSE store[r]]
        IN  \E out \in {get_merged_sensor_configuration(objects, <<RESULT>>, v)} :
            /\ store' = [r \in LayerRefs |-> out.heap[r]]
            /\ configs' = <<RESULT>>
            /\ args' = <<result>>
            /\ validate' = v
            /\ called' = "remerge"
            /\ raised' = out.raised
            /\ result' = IF out.raised THEN EmptyDict ELSE out.merged_config
    /\ UNCHANGED entityVars

Next == Merge \/ Remerge

Spec == Init /\ [][Next]_vars

\* ---- the resolver against a fixed host snapshot
InitEntity ==
    /\ store = [r \in LayerRefs |-> EmptyDict]
    /\ NoCallYet
    /\ hass \in Hasses
    /\ source_entity = NoneObject

CreateSourceEntity ==
    /\ \E entity_id \in EntityIds :
        source_entity' = create_source_entity(entity_id, hass)
    /\ UNCHANGED hass
    /\ UNCHANGED mergeVars

NextEntity == CreateSourceEntity

SpecEntity == InitEntity /\ [][NextEntity]_vars

TypeOK ==
    /\ called \in {"none", "merge", "remerge"}
    /\ raised \in BOOLEAN
    /\ hass \in Hasses

\* ===================================================================== claims
\* helpers: the last call's layers, by position
NumArgs == Len(args)
Returned == called # "none" /\ ~raised
Defining(k) == {i \in 1..NumArgs : k \in DOMAIN args[i]}
Highest(S) == CHOOSE i \in S : \A j \in S : j <= i
LastHas(k) == NumArgs >= 1 /\ k \in DOMAIN args[NumArgs]

\* C1: an identity key reaches the result only from the last layer: name,
\* unique_id and power_sensor_id are in the result iff the last layer has them,
\* with its value; entity_id likewise, except that without it in the last
\* layer the result holds either no entity_id or the placeholder.
C1_IdentityOnlyFromLastLayer ==
    (Returned /\ NumArgs >= 1) =>
        /\ \A k \in IdentityKeys \ {CONF_ENTITY_ID} :
              /\ k \in DOMAIN result <=> LastHas(k)
              /\ LastHas(k) => result[k] = args[NumArgs][k]
        /\ LastHas(CONF_ENTITY_ID) =>
              /\ CONF_ENTITY_ID \in DOMAIN result
              /\ result[CONF_ENTITY_ID] = args[NumArgs][CONF_ENTITY_ID]
        /\ ~LastHas(CONF_ENTITY_ID) =>
              \/ CONF_ENTITY_ID \notin DOMAIN result
              \/ result[CONF_ENTITY_ID] = DUMMY_ENTITY_ID

\* a three-layer merge whose first layer names the sensor and whose other two
\* layers are one layer carrying a unique id: the name is gone, the unique id
\* is kept, from the last position
C1_Witness ==
    /\ called = "merge" /\ ~raised /\ NumArgs = 3
    /\ CONF_NAME \in DOMAIN args[1]
    /\ CONF_UNIQUE_ID \in DOMAIN args[2]
    /\ CONF_UNIQUE_ID \in DOMAIN args[3]
    /\ CONF_NAME \notin DOMAIN result
    /\ CONF_UNIQUE_ID \in DOMAIN result
    /\ result[CONF_UNIQUE_ID] = args[3][CONF_UNIQUE_ID]

\* the first layer's entity_id is dropped and nothing replaces it
C1_WitnessEntityId ==
    /\ called = "merge" /\ ~raised /\ NumArgs = 2
    /\ CONF_ENTITY_ID \in DOMAIN args[1]
    /\ CONF_ENTITY_ID \notin DOMAIN result

\* C2: the merge raises exactly when validate is true and the defaulted
\* mapping has neither create_group nor entity_id, that is: no layer defines
\* create_group, the last layer defines no entity_id, and no layer defines
\* daily_fixed_energy (rule B would supply the placeholder).
C2_RaisesExactlyWhen ==
    called # "none" =>
        (raised <=>
            /\ validate
            /\ Defining(CONF_CREATE_GROUP) = {}
            /\ ~LastHas(CONF_ENTITY_ID)
            /\ Defining(CONF_DAILY_FIXED_ENERGY) = {})

\* the only entity_id sits in a non-final layer, is dropped, and the merge raises
C2_Witness ==
    /\ called = "merge" /\ raised /\ validate /\ NumArgs = 2
    /\ CONF_ENTITY_ID \in DOMAIN args[1]
    /\ CONF_ENTITY_ID \notin DOMAIN args[2]

\* the same layers merged with validate = false: no error
C2_WitnessNoValidate ==
    /\ called = "merge" /\ ~raised /\ ~validate /\ NumArgs = 2
    /\ CONF_ENTITY_ID \in DOMAIN args[1]
    /\ CONF_ENTITY_ID \notin DOMAIN result
    /\ CONF_CREATE_GROUP \notin DOMAIN result

NothingToMerge == args = <<>> \/ args = <<EmptyDict>>

\* C3 as stated: merging [{}] or no layer at all with validate = false returns
\* the empty mapping, and with validate = true raises.
C3_EmptyMergeReturnsEmpty ==
    (called = "merge" /\ NothingToMerge) =>
        IF validate THEN raised ELSE ~raised /\ result = EmptyDict

\* C3 amended: merging [{}] or no layer at all with validate = false returns the
\* mapping whose only key is create_energy_sensor, with value None; with
\* validate = true it raises.
C3_EmptyMergeReturnsNullFlag ==
    (called = "merge" /\ NothingToMerge) =>
        IF validate THEN raised
        ELSE /\ ~raised
             /\ DOMAIN result = {CONF_CREATE_ENERGY_SENSOR}
             /\ result[CONF_CREATE_ENERGY_SENSOR] = None

C3_Witness ==
    /\ called = "merge" /\ ~validate /\ ~raised
    /\ args = <<EmptyDict>>
    /\ result # EmptyDict

\* C4: rule A is one-directional.  If a layer defines create_energy_sensor the
\* result holds the value of the last layer defining it; if none does and the
\* legacy key is in the result, create_energy_sensor takes the legacy value;
\* the legacy key is in the result iff a layer defines it, with the value of
\* the last layer defining it.
C4_RuleAOneDirectional ==
    Returned =>
        /\ Defining(CONF_CREATE_ENERGY_SENSOR) # {} =>
              result[CONF_CREATE_ENERGY_SENSOR] =
                  args[Highest(Defining(CONF_CREATE_ENERGY_SENSOR))][CONF_CREATE_ENERGY_SENSOR]
        /\ (Defining(CONF_CREATE_ENERGY_SENSOR) = {}
              /\ CONF_CREATE_ENERGY_SENSORS \in DOMAIN result) =>
              result[CONF_CREATE_ENERGY_SENSOR] = result[CONF_CREATE_ENERGY_SENSORS]
        /\ CONF_CREATE_ENERGY_SENSORS \in DOMAIN result
              <=> Defining(CONF_CREATE_ENERGY_SENSORS) # {}
        /\ Defining(CONF_CREATE_ENERGY_SENSORS) # {} =>
              result[CONF_CREATE_ENERGY_SENSORS] =
                  args[Highest(Defining(CONF_CREATE_ENERGY_SENSORS))][CONF_CREATE_ENERGY_SENSORS]

\* both keys defined, with different values: the primary one is kept
C4_Witness ==
    /\ called = "merge" /\ ~raised
    /\ Defining(CONF_CREATE_ENERGY_SENSOR) # {}
    /\ Defining(CONF_CREATE_ENERGY_SENSORS) # {}
    /\ result[CONF_CREATE_ENERGY_SENSOR] # result[CONF_CREATE_ENERGY_SENSORS]

\* only the legacy key defined: the primary one takes its value
C4_WitnessLegacy ==
    /\ called = "merge" /\ ~raised
    /\ Defining(CONF_CREATE_ENERGY_SENSOR) = {}
    /\ Defining(CONF_CREATE_ENERGY_SENSORS) # {}
    /\ result[CONF_CREATE_ENERGY_SENSOR] = result[CONF_CREATE_ENERGY_SENSORS]
    /\ result[CONF_CREATE_ENERGY_SENSOR] # None

\* C5: rule B.  When some layer defines daily_fixed_energy the merge does not
\* raise, whatever validate is; the result's entity_id is the last layer's when
\* the last layer defines one (never the placeholder instead), and the
\* placeholder otherwise.
C5_RuleBPlaceholder ==
    (called # "none" /\ Defining(CONF_DAILY_FIXED_ENERGY) # {}) =>
        /\ ~raised
        /\ CONF_ENTITY_ID \in DOMAIN result
        /\ result[CONF_ENTITY_ID] =
              IF LastHas(CONF_ENTITY_ID) THEN args[NumArgs][CONF_ENTITY_ID]
              ELSE DUMMY_ENTITY_ID

\* validate = true; the first layer holds daily_fixed_energy and an entity_id
\* that is dropped; the last layer has no entity_id: the placeholder is set
C5_Witness ==
    /\ called = "merge" /\ validate /\ ~raised /\ NumArgs = 2
    /\ CONF_DAILY_FIXED_ENERGY \in DOMAIN args[1]
    /\ CONF_ENTITY_ID \in DOMAIN args[1]
    /\ CONF_ENTITY_ID \notin DOMAIN args[2]
    /\ CONF_CREATE_GROUP \notin DOMAIN result
    /\ result[CONF_ENTITY_ID] = DUMMY_ENTITY_ID

\* the last layer's entity_id is kept although daily_fixed_energy is defined
C5_WitnessKept ==
    /\ called = "merge" /\ ~raised /\ NumArgs = 2
    /\ CONF_DAILY_FIXED_ENERGY \in DOMAIN args[1]
    /\ CONF_ENTITY_ID \in DOMAIN args[2]
    /\ result[CONF_ENTITY_ID] = args[2][CONF_ENTITY_ID]
    /\ result[CONF_ENTITY_ID] # DUMMY_ENTITY_ID

\* C6 as stated: merging [M], M the result of a successful merge with either
\* value of validate, returns M and does not raise.
C6_RemergeReturnsSame ==
    called = "remerge" => (~raised /\ result = args[1])

\* C6 amended: merging [M] returns M, with no key added, removed or changed,
\* unless the re-merge validates and M has neither create_group nor entity_id,
\* in which case it raises; a result of a validate = true merge always has one
\* of the two keys.
C6_RemergeReturnsSameOrRaises ==
    /\ called = "remerge" =>
          IF /\ validate
             /\ CONF_CREATE_GROUP \notin DOMAIN args[1]
             /\ CONF_ENTITY_ID \notin DOMAIN args[1]
          THEN raised
          ELSE ~raised /\ result = args[1]
    /\ (Returned /\ validate) =>
          (CONF_CREATE_GROUP \in DOMAIN result \/ CONF_ENTITY_ID \in DOMAIN result)

\* a result carrying identity keys and both defaults, merged again with
\* validate = true, comes back unchanged
C6_Witness ==
    /\ called = "remerge" /\ validate /\ ~raised
    /\ result = args[1]
    /\ CONF_NAME \in DOMAIN result
    /\ CONF_ENTITY_ID \in DOMAIN result
    /\ result[CONF_ENTITY_ID] = DUMMY_ENTITY_ID
    /\ result[CONF_CREATE_ENERGY_SENSOR] = None

\* C7: every descriptor create_source_entity returns has a non-null
\* supported_color_modes.
C7_ColorModesNeverNull ==
    source_entity # NoneObject => source_entity.supported_color_modes # None

\* the descriptors of real entity ids do
C7_ColorModesNeverNullUnlessDummy ==
    (source_entity # NoneObject /\ source_entity.entity_id # DUMMY_ENTITY_ID) =>
        source_entity.supported_color_modes # None

\* what a possibly missing color-mode list resolves to
ModesOrEmpty(d) ==
    IF d # NoneObject /\ ATTR_SUPPORTED_COLOR_MODES \in DOMAIN d
       /\ d[ATTR_SUPPORTED_COLOR_MODES] # None
    THEN d[ATTR_SUPPORTED_COLOR_MODES]
    ELSE <<>>

StateOf(e) == Lookup(hass.states, e)
EntryOf(e) == Lookup(hass.entity_registry, e)

C8_WitnessDefault ==
    /\ source_entity # NoneObject
    /\ source_entity.entity_id = <<"l", ".", "a", "_", "b">>
    /\ source_entity.entity_entry = NoneObject
    /\ StateOf(source_entity.entity_id) = NoneObject
    /\ source_entity.name = <<"a", " ", "b">>

\* the objects the last call was made on, and what its loop had merged before
\* the defaulting rules
CallObjects ==
    [r \in LayerRefs \cup {RESULT} |->
        IF r = RESULT THEN (IF called = "remerge" THEN args[1] ELSE EmptyDict)
        ELSE store[r]]

MergedBeforeDefaults == MergeLoop(CallHeap(CallObjects), configs, 1)[MERGED]

\* C9: a key that is no identity key is in the merged mapping, before rule A,
\* iff some layer defines it, with the value of the highest layer defining it;
\* the returned mapping agrees on every such key but create_energy_sensor,
\* which it holds in any case.
C9_OptionKeysLastWins ==
    called # "none" =>
        /\ \A k \in OptionKeys :
              /\ k \in DOMAIN MergedBeforeDefaults <=> Defining(k) # {}
              /\ Defining(k) # {} =>
                    MergedBeforeDefaults[k] = args[Highest(Defining(k))][k]
        /\ ~raised =>
              \A k \in OptionKeys :
                  /\ k # CONF_CREATE_ENERGY_SENSOR =>
                        (k \in DOMAIN result <=> Defining(k) # {})
                  /\ Defining(k) # {} => result[k] = args[Highest(Defining(k))][k]

\* a key defined in the first and in the last of three layers, with different
\* values: the last one's is returned
C9_Witness ==
    /\ called = "merge" /\ ~raised /\ NumArgs = 3
    /\ CONF_POWER \in DOMAIN args[1]
    /\ CONF_POWER \in DOMAIN args[3]
    /\ args[1][CONF_POWER] # args[3][CONF_POWER]
    /\ result[CONF_POWER] = args[3][CONF_POWER]

\* a non-final layer with a name and a power: the name goes, the power stays
C9_WitnessNotFiltered ==
    /\ called = "merge" /\ ~raised /\ NumArgs = 2
    /\ CONF_NAME \in DOMAIN args[1]
    /\ CONF_POWER \in DOMAIN args[1]
    /\ CONF_POWER \notin DOMAIN args[2]
    /\ CONF_NAME \notin DOMAIN result
    /\ result[CONF_POWER] = args[1][CONF_POWER]

\* C10: no merge call changes a layer the caller holds, whether it drops
\* identity keys, applies a defaulting rule or raises.
C10_LayersUnchanged == [][store' = store]_vars

\* a call that dropped an identity key of its first layer, and one that raised,
\* with the layers as they were when the call was made
C10_Witness ==
    /\ called = "merge" /\ NumArgs = 2
    /\ CONF_NAME \in DOMAIN args[1]
    /\ CONF_DAILY_FIXED_ENERGY \in DOMAIN args[1]
    /\ ~raised /\ CONF_NAME \notin DOMAIN result
    /\ store[configs[1]] = args[1]
    /\ CONF_NAME \in DOMAIN store[configs[1]]

C10_WitnessRaised ==
    /\ called = "merge" /\ raised /\ NumArgs = 2
    /\ CONF_ENTITY_ID \in DOMAIN args[1]
    /\ store[configs[1]] = args[1]
====
